---- MODULE Spec2Model ----
(***************************************************************************)
(* A model of balter's closed-loop load controller:                        *)
(*   - TpsSampler (worker pool, counters, rate limiter handle),            *)
(*   - ConcurrentSampler (sample window + controller decisions),           *)
(*   - ConcurrencyAdjustedSampler (concurrency search, underpowered        *)
(*     detection).                                                         *)
(*                                                                         *)
(* Numbers.  A measured TPS is an f64 in the code; here it is the exact    *)
(* rational n / TpsDen, kept as its numerator n.  Goals and limits are     *)
(* NonZeroU32 and stay integers.  usize arithmetic is kept modulo          *)
(* 2^USIZE_BITS (a small stand-in width: TLC's integers are 32 bits wide). *)
(* The proposal ceil(concurrency * (goal / measured)) is computed as the   *)
(* code computes it, in two f64 operations that each round to nearest,     *)
(* ties to even, on a significand of F64_MANT_BITS bits (again a stand-in  *)
(* width); comparisons of TPS values are exact.                            *)
(* Whether an unsigned subtraction that goes below zero panics or wraps    *)
(* depends on the build profile (overflow checks), which is fixed for a    *)
(* run and chosen in Init.                                                 *)
(***************************************************************************)
EXTENDS Integers, Naturals, Sequences, FiniteSets, TLC

\* ---------------------------------------------------------------- constants
MAX_CHANGE == 100
SAMPLE_WINDOW_SIZE == 10
SKIP_SIZE == 3
\* interval(Duration::from_millis(200)), in nanoseconds
INITIAL_PERIOD_NS == 200000000
\* the sample size above which sample_tps shortens its interval
HALVING_THRESHOLD == 2000

\* ------------------------------------------------------------------- bounds
\* Stand-in for the width of usize.
USIZE_BITS == 20
\* Width at which the runner's u32 subtraction is followed.
U32_BITS == 24
\* Stand-in for the width of the f64 significand.
F64_MANT_BITS == 13
\* Non-stable decision cycles (history entries) explored per run.
MaxCycles == 7
\* External set_goal_tps / set_tps_limit calls explored per run.
MaxSets == 1
\* Changes of the sampled TPS level between consecutive ticks.
MaxShifts == 1
\* Worker-pool runs: largest set_concurrency argument, number of calls,
\* transactions completed, samples taken.
MaxConc == 2
MaxConcCalls == 3
MaxEvents == 2
MaxSamples == 1
\* Worker-pool runs that are followed to the end of wait_for_shutdown under
\* fair scheduling ("DRAIN"): set_concurrency calls, transactions completed
\* before the shutdown.
MaxDrainCalls == 2
MaxDrainEvents == 1
\* Runs that follow the sampling interval ("TICK"): sample_tps calls.
MaxTickSamples == 29
\* Worker-pool runs that follow the counters ("COUNT"): set_concurrency
\* calls, transactions completed before the shutdown, samples taken.
MaxCountCalls == 1
MaxCountEvents == 2
MaxCountSamples == 2
\* Runs of the goal-TPS runner ("RUN"): config.duration, in clock ticks.
MaxRunDuration == 6
\* Runs that apply the concurrency search to a freshly built sampler
\* ("CALC"): largest starting concurrency, decision cycles followed.
MaxCalcConc == 40
MaxCalcCycles == 1

\* A measured TPS is n / TpsDen: the mean of a full window is a sum of
\* SAMPLE_WINDOW_SIZE per-sample values divided by the window size.
TpsDen == SAMPLE_WINDOW_SIZE

\* Goal the sampler is constructed with, and the goals set from outside.
InitGoals == {4}
Goals == {2, 4, 6}
\* Measured TPS values (numerators over TpsDen) a decision cycle may see:
\* 0, 1.0, 2.5, 3.8 (= 0.95 * 4) and 4.2 (= 1.05 * 4).
TpsValues == {0, 10, 25, 38, 42}
\* Per-tick TPS of a single sample (integers) of a ConcurrentSampler.
SampleTps == {1, 4}
\* Concurrency a ConcurrencyAdjustedSampler may be constructed with.
StartConcurrency == {1, 4}

USIZE_MOD == 2 ^ USIZE_BITS
USIZE_MAX == USIZE_MOD - 1

VARIABLES
    kind,                 \* the run: "CAS" | "CALC" | "CS" | "POOL" | "DRAIN" | "COUNT" | "TICK" | "RUN"
    overflow_checks,      \* build profile: TRUE = subtraction overflow panics
    concurrency,          \* TpsSampler.concurrency (the shared atomic pool size)
    tps_limit,            \* TpsSampler.tps_limit
    limiter,              \* the limiter handle: [rate, id], id fresh per store
    tps_limited,          \* tps_limited latch of the sampler
    measurements,         \* history of <<concurrency, tps numerator>>
    starting_concurrency, \* ConcurrencyAdjustedSampler.starting_concurrency
    needs_clear,          \* ConcurrentSampler.needs_clear
    cc_goal,              \* goal held by ConcurrentSampler.cc
    samples,              \* ConcurrentSampler.samples: the ring, oldest first
    skip_left,            \* pushes the window still discards
    panic,                \* "none", or what aborted the run
    op,                   \* the last operation: [name, arg, out]
    sets,                 \* external set calls made
    sut_tps,              \* TPS one sample currently measures (environment)
    shifts,               \* changes of sut_tps so far
    pushes_since_clear,   \* samples pushed since the window was last cleared (history)
    stale,                \* ring entries sampled before the latest change (history)
    seen_stale,           \* such entries in the window analyze last saw (history)
    tasks,                \* TpsSampler.tasks: held handles (worker indexes)
    workers,              \* every task spawned: [id, pc, checked, extra]
    success_count,        \* TpsSampler.success_count
    error_count,          \* TpsSampler.error_count
    sampler_pc,           \* position inside sample_tps: "idle" | "swapped"
    swapped_success,      \* value the first swap of sample_tps read
    emitted,              \* increments performed by workers (history)
    reported,             \* sum of success+error over TpsData returned (history)
    nsamples,             \* sample_tps calls completed
    ncalls,               \* set_concurrency calls made on the pool
    held,                 \* the handles wait_for_shutdown found in tasks (history)
    shut,                 \* "running" | "joining" | "returned"
    period,               \* TpsSampler.interval.period(), in nanoseconds
    config,               \* run_tps's ScenarioConfig: [goal_tps, duration]
    run_pc,               \* run_tps: "loop" | "shutdown" | "done"
    elapsed,              \* start.elapsed() when last read, in clock ticks
    ctl_concurrency,      \* the runner's ConcurrencyController.concurrency
    gauge_concurrency,    \* the "<name>-concurrency" gauge
    gauge_goal_tps,       \* the "<name>-goal_tps" gauge
    offers                \* configs sent to BALTER_OUT, oldest first

\* What the model records about the window, beside the window itself.
winhist == <<pushes_since_clear, stale, seen_stale>>
\* The locals of run_tps, its gauges and its channel.
runvars == <<config, run_pc, elapsed, ctl_concurrency, gauge_concurrency,
             gauge_goal_tps, offers>>
ctlvars == <<concurrency, tps_limit, limiter, tps_limited, measurements,
             starting_concurrency, needs_clear, cc_goal, samples, skip_left,
             panic, op, sets, sut_tps, shifts, winhist, runvars>>
poolvars == <<tasks, workers, success_count, error_count, sampler_pc,
              swapped_success, emitted, reported, nsamples, ncalls, held,
              shut, period>>
vars == <<kind, overflow_checks, ctlvars, poolvars>>

NoOp == [name |-> "new", arg |-> 0, out |-> "none"]

\* ------------------------------------------------------- f64 / usize helpers

\* Faulty variant: the threshold applied to the absolute error.
ErrorBelowThreshold_Abs(goal, n) ==
    /\ 20 * (goal * TpsDen - n) < goal * TpsDen
    /\ 20 * (n - goal * TpsDen) < goal * TpsDen

\* (goal_tps - measured_tps) / goal_tps < 0.05, measured_tps = n / TpsDen
ErrorBelowThreshold(goal, n) == 20 * (goal * TpsDen - n) < goal * TpsDen

\* A positive finite f64 is [m, e], standing for m * 2^e with
\* F64_MANT_MIN <= m < F64_MANT_MAX.
F64_MANT_MAX == 2 ^ F64_MANT_BITS
F64_MANT_MIN == 2 ^ (F64_MANT_BITS - 1)

\* The f64 nearest to (a / b) * 2^e, ties to even (a, b > 0).
RECURSIVE F64Round(_, _, _)
F64Round(a, b, e) ==
    IF a >= b * F64_MANT_MAX THEN F64Round(a, 2 * b, e + 1)
    ELSE IF a < b * F64_MANT_MIN THEN F64Round(2 * a, b, e - 1)
    ELSE LET q == a \div b
             r == a % b
             m == IF 2 * r > b \/ (2 * r = b /\ q % 2 = 1) THEN q + 1 ELSE q
         IN  IF m = F64_MANT_MAX
             THEN [m |-> F64_MANT_MIN, e |-> e + 1]
             ELSE [m |-> m, e |-> e]

\* goal_tps / measured_tps, measured_tps = n / TpsDen > 0
F64Div(goal, n) == F64Round(goal * TpsDen, n, 0)

\* concurrency as f64 * adjustment (concurrency converts exactly)
F64Mul(c, x) == F64Round(c * x.m, 1, x.e)

\* x.ceil() as usize, saturating
F64CeilAsUsize(x) ==
    IF x.e >= 0
    THEN IF x.e > USIZE_BITS - F64_MANT_BITS THEN USIZE_MAX ELSE x.m * 2 ^ x.e
    ELSE (x.m + 2 ^ (0 - x.e) - 1) \div 2 ^ (0 - x.e)

\* Faulty variant: the quotient is truncated before the multiplication.
ProposedConcurrency_IntegerQuotient(c, goal, n) ==
    IF n = 0 THEN USIZE_MAX ELSE c * ((goal * TpsDen) \div n)

\* (concurrency as f64 * (goal_tps / measured_tps)).ceil() as usize
\* (x / 0.0 is +inf, 0 * inf is NaN; `as usize` saturates and maps NaN to 0)
ProposedConcurrency(c, goal, n) ==
    IF c = 0 THEN 0
    ELSE IF n = 0 THEN USIZE_MAX
    ELSE F64CeilAsUsize(F64Mul(c, F64Div(goal, n)))

\* a - b on usize when the build wraps
WrappingSub(a, b) == (a - b + USIZE_MOD) % USIZE_MOD

\* tps as u32
TpsAsU32(n) == n \div TpsDen

\* (concurrency as f64 * CONCURRENCY_SET_ADJUSTMENT) as usize
PullBack(c) == (3 * c) \div 4

\* ------------------------------------------- the concurrency search (f64/usize)

\* One window of detect_underpowered's slope closure: is
\* (t1 - t0) / (c1 - c0) as f64, with NaN replaced by 0., below 1. ?
\* c1 - c0 is a usize subtraction (wrapped here; the checked build panics
\* before, see SubOverflows).  A zero divisor gives NaN (t1 = t0, read as 0.),
\* -inf (t1 < t0) or +inf (t1 > t0).
SlopeBelowOne(m0, m1) ==
    LET dc == WrappingSub(m1[1], m0[1])
    IN  IF dc = 0
        THEN m1[2] <= m0[2]
        ELSE m1[2] - m0[2] < TpsDen * dc

\* Some adjacent pair of the history has c1 < c0: `c1 - c0` overflows.
SubOverflows(meas) ==
    \E i \in 1..(Len(meas) - 1) : meas[i + 1][1] < meas[i][1]

NoDetection == [tag |-> "none", max_tps |-> 0, concurrency |-> 0]

\* Faulty variant: two slopes are enough.
Plateau_TwoSlopes(meas) ==
    LET n == Len(meas)
    IN  /\ n - 1 >= 2
        /\ SlopeBelowOne(meas[n - 2], meas[n - 1])
        /\ SlopeBelowOne(meas[n - 1], meas[n])

\* slopes.len() > 2 && the last two slopes are both < 1.
Plateau(meas) ==
    LET n == Len(meas)
    IN  /\ n - 1 > 2
        /\ SlopeBelowOne(meas[n - 2], meas[n - 1])
        /\ SlopeBelowOne(meas[n - 1], meas[n])

\* Faulty variant: the latest measurement is read.
PlateauFoot_Last(meas) == meas[Len(meas)]

\* The measurement detect_underpowered reads: measurements[len - 3].
PlateauFoot(meas) == meas[Len(meas) - 2]

\* detect_underpowered: "none", "some" (max_tps, concurrency), or a panic:
\* "overflow" (c1 - c0 below zero in a checked build), "unwrap"
\* (NonZeroU32::new(0).unwrap()).
detect_underpowered(meas, checks) ==
    IF checks /\ SubOverflows(meas)
    THEN [NoDetection EXCEPT !.tag = "overflow"]
    ELSE IF Plateau(meas)
         THEN LET m == PlateauFoot(meas)
              IN  IF TpsAsU32(m[2]) = 0
                  THEN [NoDetection EXCEPT !.tag = "unwrap"]
                  ELSE [tag |-> "some", max_tps |-> TpsAsU32(m[2]),
                        concurrency |-> m[1]]
         ELSE NoDetection

\* Faulty variant: the step is not clamped.
ClampStep_NoClamp(c, new) == new

\* new_concurrency after the MAX_CHANGE clamp (lines 92-102); the step
\* new_concurrency - concurrency is a usize subtraction.
ClampStep(c, new) ==
    IF WrappingSub(new, c) > MAX_CHANGE THEN c + MAX_CHANGE ELSE new

\* adjust_concurrency(measured_tps) with concurrency c and goal `goal`:
\* the history after the push, and either a panic or the concurrency to
\* apply, whether the limit was latched and the limit then installed.
adjust_concurrency(c, goal, n, meas, start, checks) ==
    LET pushed == Append(meas, <<c, n>>)
        new == ProposedConcurrency(c, goal, n)
        clamped == ClampStep(c, new)
        base == [tag |-> "alter", measurements |-> pushed,
                 new_concurrency |-> clamped, max_tps |-> 0]
        d == detect_underpowered(pushed, checks)
    IN  IF checks /\ new < c
        THEN [base EXCEPT !.tag = "overflow"]
        ELSE IF clamped = 0
        THEN [base EXCEPT !.new_concurrency = start]
        ELSE IF d.tag = "some"
        THEN [base EXCEPT !.tag = "limited", !.max_tps = d.max_tps,
                          !.new_concurrency = PullBack(d.concurrency)]
        ELSE IF d.tag = "none"
        THEN base
        ELSE [base EXCEPT !.tag = d.tag]

\* Faulty variant: the latch is left as it was.
LatchOnDetection_Forgotten == tps_limited

\* tps_limited after an underpowered detection: `tps_limited = true`.
LatchOnDetection == TRUE

PanicOf(tag) ==
    IF tag = "overflow" THEN "attempt to subtract with overflow"
    ELSE "called Option::unwrap() on a None value"

\* ------------------------------------------------------------- TpsSampler

NewLimiter(rate) == [rate |-> rate, id |-> limiter.id + 1]

\* Faulty variant: the limiter is replaced on every call.
TpsSampler_set_tps_limit_Always(n) ==
    [tps_limit |-> n, limiter |-> NewLimiter(n)]

\* TpsSampler::set_tps_limit: the fields <<tps_limit, limiter>> after it.
TpsSampler_set_tps_limit(n) ==
    IF n # tps_limit
    THEN [tps_limit |-> n, limiter |-> NewLimiter(n)]
    ELSE [tps_limit |-> tps_limit, limiter |-> limiter]

\* TpsSampler::set_concurrency(n) refuses 0 with a panic.
SetConcurrencyPanics(n) == n = 0

ZeroConcurrencyPanic == "Concurrent count is not allowed to be set to 0."

\* Everything but the fields a decision or a set call may write.
ctl_frame == <<kind, overflow_checks, starting_concurrency, poolvars, runvars>>

\* --------------------------------------------- ConcurrencyAdjustedSampler

\* Faulty variant: the latch is not consulted.
CAS_LimitRefused_NoLatch(x) == FALSE

\* set_tps_limit's early return: a raise while tps_limited.
CAS_LimitRefused(x) == x > tps_limit /\ tps_limited

\* The fields after sampler.set_concurrency(c) closes a decision cycle:
\* a panic on 0, the stored pool size otherwise.
ApplyConcurrency(c, out, arg, name) ==
    IF SetConcurrencyPanics(c)
    THEN /\ panic' = ZeroConcurrencyPanic
         /\ concurrency' = concurrency
         /\ op' = [name |-> name, arg |-> arg, out |-> "panic"]
    ELSE /\ panic' = panic
         /\ concurrency' = c
         /\ op' = [name |-> name, arg |-> arg, out |-> out]

\* The runs of a ConcurrencyAdjustedSampler.
CASKinds == {"CAS", "CALC"}
CycleBudget == IF kind = "CALC" THEN MaxCalcCycles ELSE MaxCycles

\* ConcurrencyAdjustedSampler::sample with the window's mean_tps = n / TpsDen.
CAS_sample(n) ==
    /\ kind \in CASKinds
    /\ panic = "none"
    /\ UNCHANGED <<ctl_frame, needs_clear, cc_goal, samples, skip_left,
                   sets, sut_tps, shifts, winhist>>
    /\ IF ErrorBelowThreshold(tps_limit, n)
       THEN /\ op' = [name |-> "sample", arg |-> n, out |-> "Stable"]
            /\ UNCHANGED <<concurrency, tps_limit, limiter, tps_limited,
                           measurements, panic>>
       ELSE /\ Len(measurements) < CycleBudget
            /\ LET r == adjust_concurrency(concurrency, tps_limit, n,
                            measurements, starting_concurrency, overflow_checks)
               IN  /\ measurements' = r.measurements
                   /\ IF r.tag \in {"overflow", "unwrap"}
                      THEN /\ panic' = PanicOf(r.tag)
                           /\ op' = [name |-> "sample", arg |-> n, out |-> "panic"]
                           /\ UNCHANGED <<concurrency, tps_limit, limiter,
                                          tps_limited>>
                      ELSE IF r.tag = "limited"
                      THEN /\ tps_limited' = LatchOnDetection
                           /\ tps_limit' = TpsSampler_set_tps_limit(r.max_tps).tps_limit
                           /\ limiter' = TpsSampler_set_tps_limit(r.max_tps).limiter
                           /\ ApplyConcurrency(r.new_concurrency, "TpsLimited",
                                               n, "sample")
                      ELSE /\ UNCHANGED <<tps_limit, limiter, tps_limited>>
                           /\ ApplyConcurrency(r.new_concurrency,
                                               "AlterConcurrency", n, "sample")

\* ConcurrencyAdjustedSampler::set_tps_limit(x)
CAS_set_tps_limit(x) ==
    /\ kind = "CAS"
    /\ panic = "none"
    /\ sets < MaxSets
    /\ sets' = sets + 1
    /\ UNCHANGED <<ctl_frame, concurrency, tps_limited, measurements,
                   needs_clear, cc_goal, samples, skip_left, panic,
                   sut_tps, shifts, winhist>>
    /\ IF CAS_LimitRefused(x)
       THEN /\ op' = [name |-> "set_tps_limit", arg |-> x, out |-> "ignored"]
            /\ UNCHANGED <<tps_limit, limiter>>
       ELSE /\ op' = [name |-> "set_tps_limit", arg |-> x, out |-> "applied"]
            /\ tps_limit' = TpsSampler_set_tps_limit(x).tps_limit
            /\ limiter' = TpsSampler_set_tps_limit(x).limiter

\* ------------------------------------------------------------- SampleSet
\* The window <<ring, skip>>: ring holds per-sample TPS, oldest first.

RECURSIVE SeqSum(_)
SeqSum(q) == IF q = <<>> THEN 0 ELSE Head(q) + SeqSum(Tail(q))

SampleSet_clear == [ring |-> <<>>, skip |-> SKIP_SIZE]

SampleSet_push(w, t) ==
    IF w.skip > 0
    THEN [w EXCEPT !.skip = w.skip - 1]
    ELSE IF Len(w.ring) = SAMPLE_WINDOW_SIZE
         THEN [w EXCEPT !.ring = Append(Tail(w.ring), t)]
         ELSE [w EXCEPT !.ring = Append(w.ring, t)]

SampleSet_full(w) == Len(w.ring) = SAMPLE_WINDOW_SIZE

\* mean_tps as a numerator over TpsDen
SampleSet_mean_tps(w) == (SeqSum(w.ring) * TpsDen) \div Len(w.ring)

\* ----------------------------------------------------- ConcurrencyController
\* cc.analyze(&samples) of ConcurrentSampler: the decision procedure on the
\* window's mean n / TpsDen, the controller's goal and history.
cc_analyze(c, goal, n, meas, start, checks) ==
    IF ErrorBelowThreshold(goal, n)
    THEN [tag |-> "stable", measurements |-> meas, new_concurrency |-> c,
          max_tps |-> 0]
    ELSE LET pushed == Append(meas, <<c, n>>)
             proposed == ClampStep(c, ProposedConcurrency(c, goal, n))
             base == [tag |-> "alter", measurements |-> pushed,
                      new_concurrency |-> proposed, max_tps |-> 0]
             d == detect_underpowered(pushed, checks)
         IN  IF checks /\ ProposedConcurrency(c, goal, n) < c
             THEN [base EXCEPT !.tag = "overflow"]
             ELSE IF d.tag = "some"
             THEN [base EXCEPT !.tag = "limited", !.max_tps = d.max_tps,
                               !.new_concurrency = PullBack(d.concurrency)]
             ELSE IF d.tag # "none"
             THEN [base EXCEPT !.tag = d.tag]
             ELSE IF proposed = 0
             THEN [base EXCEPT !.new_concurrency = start]
             ELSE base

\* ------------------------------------------------------- ConcurrentSampler

\* set_goal_tps's refusal: a raise while tps_limited.
CS_GoalRefused(x) == tps_limited /\ x > tps_limit

\* Faulty variant: the goal is changed without flagging the window.
set_goal_tps_unchecked_NoFlag(x, nc) ==
    IF x # tps_limit
    THEN [needs_clear |-> nc, cc_goal |-> x,
          tps_limit |-> TpsSampler_set_tps_limit(x).tps_limit,
          limiter |-> TpsSampler_set_tps_limit(x).limiter]
    ELSE [needs_clear |-> nc, cc_goal |-> cc_goal, tps_limit |-> tps_limit,
          limiter |-> limiter]

\* set_goal_tps_unchecked(x), entered with needs_clear = nc: the fields after.
set_goal_tps_unchecked(x, nc) ==
    IF x # tps_limit
    THEN [needs_clear |-> TRUE, cc_goal |-> x,
          tps_limit |-> TpsSampler_set_tps_limit(x).tps_limit,
          limiter |-> TpsSampler_set_tps_limit(x).limiter]
    ELSE [needs_clear |-> nc, cc_goal |-> cc_goal, tps_limit |-> tps_limit,
          limiter |-> limiter]

\* Faulty variant: the flag is dropped without clearing the window.
WindowBeforePush_NoClear == [ring |-> samples, skip |-> skip_left]

\* The window get_samples pushes into: cleared first if flagged.
WindowBeforePush ==
    IF needs_clear THEN SampleSet_clear
    ELSE [ring |-> samples, skip |-> skip_left]

\* The window get_samples analyses: cleared first if flagged, then pushed.
WindowAfterPush(t) == SampleSet_push(WindowBeforePush, t)

\* Pushes after which a cleared window is full again.
WindowFillPushes == SKIP_SIZE + SAMPLE_WINDOW_SIZE

\* History: pushes since the last clear, counted up to WindowFillPushes.
PushesAfter ==
    LET k == (IF needs_clear THEN 0 ELSE pushes_since_clear) + 1
    IN  IF k > WindowFillPushes THEN WindowFillPushes ELSE k

\* History: of the entries sampled before the latest change, those still in
\* the window after the push of t (a clear removes all, a push onto a full
\* ring removes the oldest).
StaleAfterPush(t) ==
    LET left == IF WindowBeforePush.ring = <<>> THEN 0 ELSE stale
        evicted == IF /\ WindowBeforePush.skip = 0
                      /\ Len(WindowAfterPush(t).ring) = Len(WindowBeforePush.ring)
                   THEN 1 ELSE 0
    IN  IF left > evicted THEN left - evicted ELSE 0

\* ConcurrentSampler::get_samples, sample_tps returning a sample of sut_tps.
CS_get_samples ==
    /\ kind = "CS"
    /\ panic = "none"
    /\ UNCHANGED <<ctl_frame, sets, sut_tps, shifts>>
    /\ LET w == WindowAfterPush(sut_tps)
       IN  /\ samples' = w.ring
           /\ skip_left' = w.skip
           /\ pushes_since_clear' = PushesAfter
           /\ IF ~SampleSet_full(w)
              THEN /\ needs_clear' = FALSE
                   /\ stale' = StaleAfterPush(sut_tps)
                   /\ seen_stale' = seen_stale
                   /\ op' = [name |-> "get_samples", arg |-> sut_tps, out |-> "None"]
                   /\ UNCHANGED <<concurrency, tps_limit, limiter, tps_limited,
                                  measurements, cc_goal, panic>>
              ELSE LET n == SampleSet_mean_tps(w)
                       r == cc_analyze(concurrency, cc_goal, n, measurements,
                                       starting_concurrency, overflow_checks)
                       g == set_goal_tps_unchecked(r.max_tps, TRUE)
                   IN  /\ r.tag = "stable" \/ Len(measurements) < MaxCycles
                       /\ measurements' = r.measurements
                       /\ seen_stale' = StaleAfterPush(sut_tps)
                       /\ stale' = IF r.tag \in {"alter", "limited"}
                                   THEN Len(w.ring)
                                   ELSE StaleAfterPush(sut_tps)
                       /\ IF r.tag = "stable"
                          THEN /\ needs_clear' = FALSE
                               /\ op' = [name |-> "get_samples", arg |-> n,
                                         out |-> "Stable"]
                               /\ UNCHANGED <<concurrency, tps_limit, limiter,
                                              tps_limited, cc_goal, panic>>
                          ELSE IF r.tag \in {"overflow", "unwrap"}
                          THEN /\ needs_clear' = FALSE
                               /\ panic' = PanicOf(r.tag)
                               /\ op' = [name |-> "get_samples", arg |-> n,
                                         out |-> "panic"]
                               /\ UNCHANGED <<concurrency, tps_limit, limiter,
                                              tps_limited, cc_goal>>
                          ELSE IF r.tag = "limited"
                          THEN /\ tps_limited' = LatchOnDetection
                               /\ needs_clear' = TRUE
                               /\ ApplyConcurrency(r.new_concurrency,
                                                   "TpsLimited", n, "get_samples")
                               /\ IF SetConcurrencyPanics(r.new_concurrency)
                                  THEN UNCHANGED <<tps_limit, limiter, cc_goal>>
                                  ELSE /\ tps_limit' = g.tps_limit
                                       /\ limiter' = g.limiter
                                       /\ cc_goal' = g.cc_goal
                          ELSE /\ needs_clear' = TRUE
                               /\ ApplyConcurrency(r.new_concurrency,
                                                   "AlterConcurrency", n,
                                                   "get_samples")
                               /\ UNCHANGED <<tps_limit, limiter, tps_limited,
                                              cc_goal>>

\* ConcurrentSampler::set_goal_tps(x)
CS_set_goal_tps(x) ==
    /\ kind = "CS"
    /\ panic = "none"
    /\ sets < MaxSets
    /\ sets' = sets + 1
    /\ UNCHANGED <<ctl_frame, concurrency, tps_limited, measurements, samples,
                   skip_left, panic, sut_tps, shifts, pushes_since_clear,
                   seen_stale>>
    /\ IF CS_GoalRefused(x)
       THEN /\ op' = [name |-> "set_goal_tps", arg |-> x, out |-> "ignored"]
            /\ UNCHANGED <<tps_limit, limiter, cc_goal, needs_clear, stale>>
       ELSE LET g == set_goal_tps_unchecked(x, needs_clear)
            IN  /\ op' = [name |-> "set_goal_tps", arg |-> x, out |-> "applied"]
                /\ stale' = IF x # tps_limit THEN Len(samples) ELSE stale
                /\ tps_limit' = g.tps_limit
                /\ limiter' = g.limiter
                /\ cc_goal' = g.cc_goal
                /\ needs_clear' = g.needs_clear

\* The system under test changes the TPS a sample measures.
EnvShift(t) ==
    /\ kind = "CS"
    /\ panic = "none"
    /\ shifts < MaxShifts
    /\ t # sut_tps
    /\ sut_tps' = t
    /\ shifts' = shifts + 1
    /\ UNCHANGED <<ctl_frame, concurrency, tps_limit, limiter, tps_limited,
                   measurements, needs_clear, cc_goal, samples, skip_left,
                   panic, op, sets, winhist>>

\* ------------------------------------------------------ the controller runs

PoolIdle ==
    /\ tasks = <<>>
    /\ workers = <<>>
    /\ success_count = 0
    /\ error_count = 0
    /\ sampler_pc = "idle"
    /\ swapped_success = 0
    /\ emitted = 0
    /\ reported = 0
    /\ nsamples = 0
    /\ ncalls = 0
    /\ held = {}
    /\ shut = "running"
    /\ period = INITIAL_PERIOD_NS

\* No run_tps is in progress.
NoConfig == [goal_tps |-> 0, duration |-> 0]

RunIdle ==
    /\ config = NoConfig
    /\ run_pc = "done"
    /\ elapsed = 0
    /\ ctl_concurrency = 0
    /\ gauge_concurrency = 0
    /\ gauge_goal_tps = 0
    /\ offers = <<>>

\* ConcurrencyAdjustedSampler::new(scenario, goal, c) or
\* ConcurrentSampler::new(scenario, goal)
Init ==
    /\ kind \in {"CAS", "CS"}
    /\ overflow_checks \in BOOLEAN
    /\ starting_concurrency \in (IF kind = "CAS" THEN StartConcurrency ELSE {1})
    /\ concurrency = starting_concurrency
    /\ tps_limit \in InitGoals
    /\ limiter = [rate |-> tps_limit, id |-> 0]
    /\ cc_goal = tps_limit
    /\ tps_limited = FALSE
    /\ measurements = <<>>
    /\ needs_clear = FALSE
    /\ samples = <<>>
    /\ skip_left = SKIP_SIZE
    /\ panic = "none"
    /\ op = NoOp
    /\ sets = 0
    /\ sut_tps \in (IF kind = "CS" THEN SampleTps ELSE {0})
    /\ shifts = 0
    /\ pushes_since_clear = 0
    /\ stale = 0
    /\ seen_stale = 0
    /\ PoolIdle
    /\ RunIdle

Next ==
    \/ \E n \in TpsValues : CAS_sample(n)
    \/ \E x \in Goals : CAS_set_tps_limit(x)
    \/ CS_get_samples
    \/ \E x \in Goals : CS_set_goal_tps(x)
    \/ \E t \in SampleTps : EnvShift(t)

Spec == Init /\ [][Next]_vars

\* ------------------------------------------------ the search on a fresh sampler
\* ConcurrencyAdjustedSampler::new over a wider range of arguments, followed
\* by sample() calls over a wider range of means.
CalcConcurrency == 1..MaxCalcConc
CalcGoals == {3, 7, 11, 2000}
\* 1.0, 3.0, 7.0, 10.0 and 1600.0
CalcTps == {10, 30, 70, 100, 16000}

InitCalc ==
    /\ kind = "CALC"
    /\ overflow_checks \in BOOLEAN
    /\ starting_concurrency \in CalcConcurrency
    /\ concurrency = starting_concurrency
    /\ tps_limit \in CalcGoals
    /\ limiter = [rate |-> tps_limit, id |-> 0]
    /\ cc_goal = tps_limit
    /\ tps_limited = FALSE
    /\ measurements = <<>>
    /\ needs_clear = FALSE
    /\ samples = <<>>
    /\ skip_left = SKIP_SIZE
    /\ panic = "none"
    /\ op = NoOp
    /\ sets = 0
    /\ sut_tps = 0
    /\ shifts = 0
    /\ pushes_since_clear = 0
    /\ stale = 0
    /\ seen_stale = 0
    /\ PoolIdle
    /\ RunIdle

NextCalc == \E n \in CalcTps : CAS_sample(n)

SpecCalc == InitCalc /\ [][NextCalc]_vars

\* ------------------------------------------------- TpsSampler: the worker pool
\* workers[w] is the w-th task ever spawned: its id, where it stands in
\*     while id < concurrent_count.load() { scenario().await }
\* ("check": about to load, "run": inside scenario(), "done": exited), and
\* whether it has loaded the pool size since the last set_concurrency.
\* extra is history: -1 until a pool size <= id is stored, then the number
\* of loop checks the worker has passed since that store (counted up to 2).
\* tasks holds the indexes of the workers whose JoinHandle is kept.

ctl_idle == <<tps_limit, limiter, tps_limited, measurements,
              starting_concurrency, needs_clear, cc_goal, samples, skip_left,
              op, sets, sut_tps, shifts, winhist, runvars>>

\* The runs of a bare TpsSampler.
PoolKinds == {"POOL", "DRAIN", "COUNT", "TICK"}
CallBudget ==
    IF kind = "DRAIN" THEN MaxDrainCalls
    ELSE IF kind = "COUNT" THEN MaxCountCalls ELSE MaxConcCalls
EventBudget ==
    IF kind = "DRAIN" THEN MaxDrainEvents
    ELSE IF kind = "COUNT" THEN MaxCountEvents ELSE MaxEvents
SampleBudget ==
    IF kind = "COUNT" THEN MaxCountSamples
    ELSE IF kind = "TICK" THEN MaxTickSamples ELSE MaxSamples

NewWorker(id) == [id |-> id, pc |-> "check", checked |-> FALSE, extra |-> -1]

\* History: the pool size n has just been stored.
Stored(wk, n) ==
    [w \in DOMAIN wk |->
        IF n <= wk[w].id /\ wk[w].extra = -1 /\ wk[w].pc # "done"
        THEN [wk[w] EXCEPT !.extra = 0] ELSE wk[w]]

\* History: a worker has passed its loop check.
Passed(r) ==
    IF r.extra \in {0, 1} THEN [r EXCEPT !.extra = r.extra + 1] ELSE r

\* The worker's loop condition: id < concurrent_count.load(Relaxed)
LoopContinues(id, count) == id < count

\* populate_jobs with the pool size just loaded: <<tasks, workers>> after it.
\* A spawned worker takes id = tasks.len() at its spawn.
populate_jobs(count, tk, wk) ==
    IF Len(tk) > count
    THEN [tasks |-> SubSeq(tk, 1, count), workers |-> wk]
    ELSE [tasks |-> tk \o [k \in 1..(count - Len(tk)) |-> Len(wk) + k],
          workers |-> wk \o [k \in 1..(count - Len(tk)) |->
                                NewWorker(Len(tk) + k - 1)]]

Unchecked(wk) == [w \in DOMAIN wk |-> [wk[w] EXCEPT !.checked = FALSE]]

\* TpsSampler::set_concurrency(n), called by the task that owns the sampler.
Pool_set_concurrency(n) ==
    /\ kind \in PoolKinds
    /\ panic = "none"
    /\ shut = "running"
    /\ sampler_pc = "idle"
    /\ ncalls < CallBudget
    /\ ncalls' = ncalls + 1
    /\ UNCHANGED <<kind, overflow_checks, ctl_idle, success_count, error_count,
                   sampler_pc, swapped_success, emitted, reported, nsamples,
                   held, shut, period>>
    /\ IF SetConcurrencyPanics(n)
       THEN /\ panic' = ZeroConcurrencyPanic
            /\ UNCHANGED <<concurrency, tasks, workers>>
       ELSE /\ panic' = panic
            /\ concurrency' = n
            /\ tasks' = populate_jobs(n, tasks, Unchecked(workers)).tasks
            /\ workers' = populate_jobs(n, tasks,
                                        Stored(Unchecked(workers), n)).workers

\* A worker evaluates its loop condition.
Worker_check(w) ==
    /\ kind \in PoolKinds
    /\ w \in DOMAIN workers
    /\ workers[w].pc = "check"
    /\ workers' = [workers EXCEPT ![w] =
                     IF LoopContinues(workers[w].id, concurrency)
                     THEN [Passed(workers[w]) EXCEPT !.checked = TRUE,
                                                     !.pc = "run"]
                     ELSE [workers[w] EXCEPT !.checked = TRUE, !.pc = "done"]]
    /\ UNCHANGED <<kind, overflow_checks, ctlvars, tasks, success_count,
                   error_count, sampler_pc, swapped_success, emitted, reported,
                   nsamples, ncalls, held, shut, period>>

\* The transaction hook's count of one finished transaction.
CountTransaction(ok) ==
    /\ success_count' = IF ok THEN success_count + 1 ELSE success_count
    /\ error_count' = IF ok THEN error_count ELSE error_count + 1
    /\ emitted' = emitted + 1

\* A worker's scenario().await returns, with its one transaction counted.
\* (EventBudget bounds the run before shutdown; an iteration in flight at
\* shutdown always finishes.)
Worker_scenario(w, ok) ==
    /\ kind \in PoolKinds
    /\ w \in DOMAIN workers
    /\ workers[w].pc = "run"
    /\ shut = "running" => emitted < EventBudget
    /\ CountTransaction(ok)
    /\ workers' = [workers EXCEPT ![w].pc = "check"]
    /\ UNCHANGED <<kind, overflow_checks, ctlvars, tasks, sampler_pc,
                   swapped_success, reported, nsamples, ncalls, held, shut,
                   period>>

\* Faulty variant: the counter is read but not reset (a load for a swap).
CounterAfterSwap_Load(v) == v

\* What a counter holds after sample_tps's swap(0).
CounterAfterSwap(v) == 0

\* sample_tps, after the tick: success_count.swap(0)
Sample_swap_success ==
    /\ kind \in PoolKinds
    /\ panic = "none"
    /\ shut = "running"
    /\ sampler_pc = "idle"
    /\ nsamples < SampleBudget
    /\ swapped_success' = success_count
    /\ success_count' = CounterAfterSwap(success_count)
    /\ sampler_pc' = "swapped"
    /\ UNCHANGED <<kind, overflow_checks, ctlvars, tasks, workers, error_count,
                   emitted, reported, nsamples, ncalls, held, shut, period>>

\* TpsData::total()
DataTotal(success, error) == success + error

\* Faulty variant: a sample of exactly the threshold shortens the interval.
ShortenInterval_AtThreshold(total) == total >= HALVING_THRESHOLD

\* data.total() > 2_000
ShortenInterval(total) == total > HALVING_THRESHOLD

\* self.interval.period() / 2 (Duration / u32 truncates to the nanosecond)
HalfPeriod(p) == p \div 2

\* tokio::time::interval panics on a zero period.
ZeroPeriodPanic == "period must be non-zero."

\* sample_tps: error_count.swap(0), the TpsData it builds, the interval it
\* may replace, and its return.
Sample_swap_error ==
    /\ kind \in PoolKinds
    /\ sampler_pc = "swapped"
    /\ error_count' = CounterAfterSwap(error_count)
    /\ swapped_success' = 0
    /\ sampler_pc' = "idle"
    /\ LET total == DataTotal(swapped_success, error_count)
           fails == ShortenInterval(total) /\ HalfPeriod(period) = 0
       IN /\ period' = IF ShortenInterval(total) /\ ~fails
                        THEN HalfPeriod(period) ELSE period
          /\ panic' = IF fails THEN ZeroPeriodPanic ELSE panic
          /\ reported' = IF fails THEN reported ELSE reported + total
          /\ nsamples' = IF fails THEN nsamples ELSE nsamples + 1
    /\ UNCHANGED <<kind, overflow_checks, concurrency, ctl_idle, tasks,
                   workers, success_count, emitted, ncalls, held, shut>>

RECURSIVE SeqToSet(_)
SeqToSet(q) == IF q = <<>> THEN {} ELSE {Head(q)} \cup SeqToSet(Tail(q))

\* The pool size wait_for_shutdown stores.
ShutdownPoolSize == 0

\* wait_for_shutdown: concurrency.store(0)
Shutdown_store ==
    /\ kind \in PoolKinds
    /\ panic = "none"
    /\ shut = "running"
    /\ sampler_pc = "idle"
    /\ concurrency' = ShutdownPoolSize
    /\ held' = SeqToSet(tasks)
    /\ shut' = "joining"
    /\ workers' = Stored(workers, ShutdownPoolSize)
    /\ UNCHANGED <<kind, overflow_checks, ctl_idle, panic, tasks,
                   success_count, error_count, sampler_pc, swapped_success,
                   emitted, reported, nsamples, ncalls, period>>

\* Faulty variant: the handle is dropped, not awaited.
Joinable_NoWait(w) == TRUE

\* May `task.await` on this worker's handle complete?
Joinable(w) == workers[w].pc = "done"

\* wait_for_shutdown: the next `task.await` of the drain completes; after
\* the last one the call returns.
Shutdown_join ==
    /\ kind \in PoolKinds
    /\ shut = "joining"
    /\ tasks # <<>>
    /\ Joinable(Head(tasks))
    /\ tasks' = Tail(tasks)
    /\ shut' = IF Tail(tasks) = <<>> THEN "returned" ELSE "joining"
    /\ UNCHANGED <<kind, overflow_checks, ctlvars, workers, success_count,
                   error_count, sampler_pc, swapped_success, emitted, reported,
                   nsamples, ncalls, held, period>>

\* TpsSampler::new(scenario, goal): pool size 1, one worker spawned.
PoolConstructed ==
    /\ overflow_checks = FALSE
    /\ starting_concurrency = 1
    /\ concurrency = 1
    /\ tps_limit \in InitGoals
    /\ limiter = [rate |-> tps_limit, id |-> 0]
    /\ cc_goal = tps_limit
    /\ tps_limited = FALSE
    /\ measurements = <<>>
    /\ needs_clear = FALSE
    /\ samples = <<>>
    /\ skip_left = SKIP_SIZE
    /\ panic = "none"
    /\ op = NoOp
    /\ sets = 0
    /\ sut_tps = 0
    /\ shifts = 0
    /\ pushes_since_clear = 0
    /\ stale = 0
    /\ seen_stale = 0
    /\ tasks = populate_jobs(1, <<>>, <<>>).tasks
    /\ workers = populate_jobs(1, <<>>, <<>>).workers
    /\ success_count = 0
    /\ error_count = 0
    /\ sampler_pc = "idle"
    /\ swapped_success = 0
    /\ emitted = 0
    /\ reported = 0
    /\ nsamples = 0
    /\ ncalls = 0
    /\ held = {}
    /\ shut = "running"
    /\ period = INITIAL_PERIOD_NS
    /\ RunIdle

InitPool == kind = "POOL" /\ PoolConstructed

InitDrain == kind = "DRAIN" /\ PoolConstructed

\* No more tasks are ever spawned than this.
MaxWorkers == 1 + MaxConcCalls * MaxConc

NextPool ==
    \/ \E n \in 0..MaxConc : Pool_set_concurrency(n)
    \/ \E w \in 1..MaxWorkers : Worker_check(w)
    \/ \E w \in 1..MaxWorkers, ok \in BOOLEAN : Worker_scenario(w, ok)
    \/ Sample_swap_success
    \/ Sample_swap_error
    \/ Shutdown_store
    \/ Shutdown_join

SpecPool == InitPool /\ [][NextPool]_vars

\* The same operations on runs that take more samples and resize less.
InitCount == kind = "COUNT" /\ PoolConstructed

SpecCount == InitCount /\ [][NextPool]_vars

\* What the workers of a busy pool complete between two steps of the
\* sampler: <<successes, errors>>.
TickBursts == {<<2000, 0>>, <<0, 1>>}

\* The workers complete a burst of transactions, each counted by the hook;
\* at most one burst of each sort is followed between two swaps.
Workers_burst(b) ==
    /\ kind = "TICK"
    /\ panic = "none"
    /\ shut = "running"
    /\ b[1] > 0 => success_count = 0
    /\ b[2] > 0 => error_count = 0
    /\ success_count' = success_count + b[1]
    /\ error_count' = error_count + b[2]
    /\ emitted' = emitted + b[1] + b[2]
    /\ UNCHANGED <<kind, overflow_checks, ctlvars, tasks, workers, sampler_pc,
                   swapped_success, reported, nsamples, ncalls, held, shut,
                   period>>

InitTick == kind = "TICK" /\ PoolConstructed

NextTick ==
    \/ \E b \in TickBursts : Workers_burst(b)
    \/ Sample_swap_success
    \/ Sample_swap_error

SpecTick == InitTick /\ [][NextTick]_vars

\* A run followed through wait_for_shutdown; sampling, which only reads and
\* resets the counters, is left to SpecPool.
NextDrain ==
    \/ \E n \in 0..MaxConc : Pool_set_concurrency(n)
    \/ \E w \in 1..MaxWorkers : Worker_check(w)
    \/ \E w \in 1..MaxWorkers, ok \in BOOLEAN : Worker_scenario(w, ok)
    \/ Shutdown_store
    \/ Shutdown_join

\* The runtime schedules every spawned task and the task awaiting the
\* joins; every scenario invocation returns.
FairPool ==
    /\ \A w \in 1..MaxWorkers : WF_vars(Worker_check(w))
    /\ \A w \in 1..MaxWorkers : WF_vars(\E ok \in BOOLEAN : Worker_scenario(w, ok))
    /\ WF_vars(Shutdown_join)

SpecPoolFair == InitDrain /\ [][NextDrain]_vars /\ FairPool

\* ------------------------------------------------------ run_tps (goal-TPS mode)
\* The runner owns a TpsSampler (concurrency, tps_limit, limiter) and a
\* ConcurrencyController (ctl_concurrency, cc_goal, measurements,
\* tps_limited).  The controller's goal changes only through its
\* set_goal_tps, which run_tps never calls.  distribute_work is compiled in
\* (feature "rt").

RunGoals == {8}
\* 3.0, 5.0 and 8.0
RunTps == {30, 50, 80}
\* Clock ticks one sample_tps().await may take.
SampleTicks == {1, 2}
\* Clock ticks between the duration check and distribute_work's argument.
LaterTicks == {0, 1}

U32_MOD == 2 ^ U32_BITS

DurationPanic == "overflow when subtracting durations"

\* controller.analyze(sample.tps()): Message::None until the controller's
\* window is full, then the decision on the window's mean.
Message(full, n) ==
    IF ~full
    THEN [tag |-> "none", measurements |-> measurements,
          new_concurrency |-> ctl_concurrency, max_tps |-> 0]
    ELSE cc_analyze(ctl_concurrency, cc_goal, n, measurements,
                    starting_concurrency, overflow_checks)

\* distribute_work(&config, at, max_tps): what it sends, or its panic.
\* config.duration - elapsed panics below zero in every build; the u32
\* subtraction panics in a checked build and wraps otherwise.
distribute_work(cfg, at, max_tps) ==
    IF at > cfg.duration
    THEN [panic |-> DurationPanic, sent |-> <<>>]
    ELSE IF overflow_checks /\ max_tps > cfg.goal_tps
    THEN [panic |-> PanicOf("overflow"), sent |-> <<>>]
    ELSE [panic |-> "none",
          sent |-> <<[goal_tps |-> (cfg.goal_tps - max_tps + U32_MOD) % U32_MOD,
                      duration |-> cfg.duration - at,
                      max_tps |-> max_tps,
                      at |-> at]>>]

\* run_tps up to its loop: the controller, the sampler at the controller's
\* concurrency, the two gauges.
InitRun ==
    /\ kind = "RUN"
    /\ overflow_checks \in BOOLEAN
    /\ starting_concurrency \in StartConcurrency
    /\ config \in [goal_tps : RunGoals, duration : {MaxRunDuration}]
    /\ run_pc = "loop"
    /\ elapsed = 0
    /\ ctl_concurrency = starting_concurrency
    /\ concurrency = ctl_concurrency
    /\ tps_limit = config.goal_tps
    /\ limiter = [rate |-> tps_limit, id |-> 0]
    /\ cc_goal = config.goal_tps
    /\ gauge_concurrency = ctl_concurrency
    /\ gauge_goal_tps = config.goal_tps
    /\ offers = <<>>
    /\ tps_limited = FALSE
    /\ measurements = <<>>
    /\ needs_clear = FALSE
    /\ samples = <<>>
    /\ skip_left = SKIP_SIZE
    /\ panic = "none"
    /\ op = NoOp
    /\ sets = 0
    /\ sut_tps = 0
    /\ shifts = 0
    /\ pushes_since_clear = 0
    /\ stale = 0
    /\ seen_stale = 0
    /\ PoolIdle

\* The sampler's pool, but for where its shutdown stands.
pool_running == <<tasks, workers, success_count, error_count, sampler_pc,
                  swapped_success, emitted, reported, nsamples, ncalls, held,
                  period>>

run_fixed == <<kind, overflow_checks, starting_concurrency, needs_clear,
               cc_goal, samples, skip_left, sets, sut_tps, shifts, winhist,
               pool_running, config>>

run_frame == <<run_fixed, shut>>

\* One pass of run_tps's loop: the sample, the duration check, the
\* controller's message and what the runner does with it.
Run_iteration(dt, full, n, later) ==
    /\ kind = "RUN"
    /\ run_pc = "loop"
    /\ panic = "none"
    /\ elapsed' = elapsed + dt
    /\ UNCHANGED run_frame
    /\ IF elapsed' > config.duration
       THEN /\ run_pc' = "shutdown"
            /\ op' = [name |-> "iteration", arg |-> n, out |-> "break"]
            /\ UNCHANGED <<concurrency, tps_limit, limiter, tps_limited,
                           measurements, panic, ctl_concurrency,
                           gauge_concurrency, gauge_goal_tps, offers>>
       ELSE LET r == Message(full, n)
            IN  /\ run_pc' = run_pc
                /\ measurements' = r.measurements
                /\ IF r.tag \in {"overflow", "unwrap"}
                   THEN /\ panic' = PanicOf(r.tag)
                        /\ op' = [name |-> "iteration", arg |-> n, out |-> "panic"]
                        /\ UNCHANGED <<concurrency, tps_limit, limiter,
                                       tps_limited, ctl_concurrency,
                                       gauge_concurrency, gauge_goal_tps, offers>>
                   ELSE IF r.tag \in {"none", "stable"}
                   THEN /\ op' = [name |-> "iteration", arg |-> n,
                                  out |-> IF r.tag = "none" THEN "None" ELSE "Stable"]
                        /\ UNCHANGED <<concurrency, tps_limit, limiter,
                                       tps_limited, panic, ctl_concurrency,
                                       gauge_concurrency, gauge_goal_tps, offers>>
                   ELSE IF r.tag = "alter"
                   THEN /\ ctl_concurrency' = r.new_concurrency
                        /\ gauge_concurrency' = r.new_concurrency
                        /\ ApplyConcurrency(r.new_concurrency,
                                            "AlterConcurrency", n, "iteration")
                        /\ UNCHANGED <<tps_limit, limiter, tps_limited,
                                       gauge_goal_tps, offers>>
                   ELSE LET d == distribute_work(config, elapsed' + later, r.max_tps)
                        IN  /\ ctl_concurrency' = r.new_concurrency
                            /\ tps_limited' = LatchOnDetection
                            /\ tps_limit' = TpsSampler_set_tps_limit(r.max_tps).tps_limit
                            /\ limiter' = TpsSampler_set_tps_limit(r.max_tps).limiter
                            /\ gauge_concurrency' = r.new_concurrency
                            /\ gauge_goal_tps' = r.max_tps
                            /\ offers' = offers \o d.sent
                            /\ panic' = d.panic
                            /\ op' = [name |-> "iteration", arg |-> n,
                                      out |-> IF d.panic = "none"
                                              THEN "TpsLimited" ELSE "panic"]
                            /\ UNCHANGED concurrency

\* What the exit path leaves alone: the sampler's limit, the controller,
\* the clock and the channel.
run_decided == <<elapsed, tps_limit, limiter, tps_limited, measurements,
                 panic, ctl_concurrency, offers>>

\* After the loop, sampler.wait_for_shutdown() is entered: concurrency.store(0)
Run_shutdown_store ==
    /\ kind = "RUN"
    /\ run_pc = "shutdown"
    /\ shut = "running"
    /\ shut' = "joining"
    /\ concurrency' = ShutdownPoolSize
    /\ op' = [name |-> "wait_for_shutdown", arg |-> 0, out |-> "awaiting"]
    /\ UNCHANGED <<run_fixed, run_decided, run_pc, gauge_concurrency,
                   gauge_goal_tps>>

\* The last `task.await` of wait_for_shutdown completes and the call
\* returns to run_tps.
Run_shutdown_joined ==
    /\ kind = "RUN"
    /\ shut = "joining"
    /\ shut' = "returned"
    /\ op' = [name |-> "wait_for_shutdown", arg |-> 0, out |-> "returned"]
    /\ UNCHANGED <<run_fixed, run_decided, run_pc, concurrency,
                   gauge_concurrency, gauge_goal_tps>>

\* Faulty variant: the gauges are zeroed without awaiting the shutdown.
ShutdownAwaited_NotAwaited == TRUE

\* `.await` on wait_for_shutdown: run_tps goes on once it has returned.
ShutdownAwaited == shut = "returned"

\* Both gauges are set to 0 and run_tps returns.
Run_zero_gauges ==
    /\ kind = "RUN"
    /\ run_pc = "shutdown"
    /\ ShutdownAwaited
    /\ run_pc' = "done"
    /\ gauge_concurrency' = 0
    /\ gauge_goal_tps' = 0
    /\ op' = [name |-> "gauges", arg |-> 0, out |-> "none"]
    /\ UNCHANGED <<run_frame, run_decided, concurrency>>

NextRun ==
    \/ \E dt \in SampleTicks, full \in BOOLEAN, n \in RunTps, later \in LaterTicks :
           Run_iteration(dt, full, n, later)
    \/ Run_shutdown_store
    \/ Run_shutdown_joined
    \/ Run_zero_gauges

SpecRun == InitRun /\ [][NextRun]_vars

\* Interval ticks keep arriving, so every sample_tps().await returns; every
\* scenario invocation returns, so the workers exit and the joins complete;
\* the runner task is scheduled.
FairRun ==
    /\ WF_vars(\E dt \in SampleTicks, full \in BOOLEAN, n \in RunTps,
                  later \in LaterTicks : Run_iteration(dt, full, n, later))
    /\ WF_vars(Run_shutdown_store)
    /\ WF_vars(Run_shutdown_joined)
    /\ WF_vars(Run_zero_gauges)

SpecRunFair == InitRun /\ [][NextRun]_vars /\ FairRun

\* =================================================================== claims

\* A step that is one decision cycle of the controller: a sample() of a
\* ConcurrencyAdjustedSampler, or a get_samples() whose window was full.
DecisionStep ==
    \/ kind \in CASKinds /\ op'.name = "sample"
    \/ /\ kind = "CS"
       /\ sets' = sets
       /\ sut_tps' = sut_tps
       /\ op'.name = "get_samples"
       /\ op'.out # "None"

\* A step that is an external set_goal_tps / set_tps_limit call.
SetStep == sets' = sets + 1

\* C1: while the run is active the pool size is >= 1 and no decision of the
\* controller (proposal, starting_concurrency fallback, 0.75 pull-back) asks
\* for set_concurrency(0).
C1_PoolSizeAtLeastOne ==
    /\ concurrency >= 1
    /\ panic # ZeroConcurrencyPanic

\* C4: a set_goal_tps(x) / set_tps_limit(x) that raises the limit while
\* tps_limited is ignored (limit, limiter, controller goal and clear flag
\* unchanged); any other call is applied.
C4_RaiseIgnoredWhenLimited ==
    [][SetStep =>
         IF tps_limited /\ op'.arg > tps_limit
         THEN /\ UNCHANGED <<tps_limit, limiter, cc_goal, needs_clear>>
              /\ op'.out = "ignored"
         ELSE /\ tps_limit' = op'.arg
              /\ limiter'.rate = op'.arg
              /\ kind = "CS" => cc_goal' = op'.arg
              /\ kind = "CS" /\ op'.arg # tps_limit => needs_clear'
      ]_vars

\* C4 witness: a raise was refused on a limited ConcurrencyAdjustedSampler.
C4_Witness ==
    /\ kind = "CAS"
    /\ tps_limited
    /\ op.name = "set_tps_limit"
    /\ op.out = "ignored"
    /\ op.arg > tps_limit

\* C5: once tps_limited is true it stays true and tps_limit never increases.
C5_LimitLatched ==
    [][tps_limited => (tps_limited' /\ tps_limit' <= tps_limit)]_vars

\* C6 (as claimed): a cycle whose measured_tps lies in the closed interval
\* [0.95 goal, 1.05 goal] is Stable and changes neither history nor pool.
C6_ClosedIntervalStable ==
    [][(/\ DecisionStep
        /\ 100 * op'.arg >= 95 * tps_limit * TpsDen
        /\ 100 * op'.arg <= 105 * tps_limit * TpsDen)
       => (/\ op'.out = "Stable"
           /\ UNCHANGED <<measurements, concurrency>>)]_vars

\* C6 (amended): a cycle whose measured_tps lies in (0.95 goal, 1.05 goal],
\* the lower endpoint excluded, is Stable and changes neither the
\* measurement history nor the pool concurrency.
C6_HalfOpenIntervalStable ==
    [][(/\ DecisionStep
        /\ 100 * op'.arg > 95 * tps_limit * TpsDen
        /\ 100 * op'.arg <= 105 * tps_limit * TpsDen)
       => (/\ op'.out = "Stable"
           /\ UNCHANGED <<measurements, concurrency>>)]_vars

\* C6 witness: a cycle measured at the upper endpoint 1.05 goal was Stable.
C6_Witness ==
    /\ op.name = "sample"
    /\ op.out = "Stable"
    /\ 100 * op.arg = 105 * tps_limit * TpsDen

C8_StepAtMostMaxChange ==
    [][(DecisionStep /\ op'.out \in {"Stable", "AlterConcurrency"})
       => (/\ concurrency' - concurrency <= MAX_CHANGE
           /\ concurrency - concurrency' <= MAX_CHANGE)]_vars

\* C8 witness: a cycle was clamped to exactly +MAX_CHANGE.
C8_Witness ==
    /\ op.out = "AlterConcurrency"
    /\ measurements # <<>>
    /\ concurrency = measurements[Len(measurements)][1] + MAX_CHANGE

\* C9: a set call that reaches TpsSampler::set_tps_limit with the current
\* limit replaces nothing (limiter handle, tps_limit, controller goal and
\* clear flag unchanged); with another value the limiter handle is replaced
\* and tps_limit becomes that value.
C9_SameLimitIsNoOp ==
    [][(SetStep /\ op'.out = "applied") =>
         IF op'.arg = tps_limit
         THEN UNCHANGED <<limiter, tps_limit, cc_goal, needs_clear>>
         ELSE /\ limiter'.id # limiter.id
              /\ limiter'.rate = op'.arg
              /\ tps_limit' = op'.arg
      ]_vars

\* C9 witness: the limit was set to its current value and the first limiter
\* is still installed.
C9_Witness ==
    /\ op.out = "applied"
    /\ op.arg = tps_limit
    /\ sets = 1
    /\ limiter.id = 0

\* Workers that have not left their loop.
Alive == {w \in DOMAIN workers : workers[w].pc # "done"}

\* Every worker still in its loop has evaluated the loop condition since the
\* last set_concurrency.
AllChecked == \A w \in Alive : workers[w].checked

\* C2: after any sequence of set_concurrency(n), n > 0, once every worker has
\* made its next loop check, exactly n workers are still running and no two
\* of them hold the same id.
C2_ExactlyLastN ==
    (kind \in PoolKinds /\ shut = "running" /\ AllChecked)
    => /\ Cardinality(Alive) = concurrency
       /\ \A v, w \in Alive : workers[v].id = workers[w].id => v = w

\* C3 (as claimed): when wait_for_shutdown has returned, the increments
\* performed by workers equal the sum of success + error over all TpsData
\* returned by sample_tps.
C3_AllEventsReported ==
    shut = "returned" => emitted = reported

\* C3 (amended): at every moment the increments performed by workers equal
\* the sum reported by the samples returned so far, plus what the two
\* counters hold, plus what the first swap of a sample in progress has read:
\* no increment is lost by a swap or reported twice, and the increments made
\* after the last sample stay in the counters, unreported.
C3_EventsAccounted ==
    emitted = reported + success_count + error_count + swapped_success

\* C3 witness: shutdown has returned, a sample has reported an event, and
\* the counters still hold one that no sample reported.
C3_Witness ==
    /\ shut = "returned"
    /\ reported > 0
    /\ success_count + error_count > 0

\* C10: wait_for_shutdown stores pool size 0; with fair scheduling and
\* terminating scenarios it returns; when it has returned every worker whose
\* handle it held has left its loop; and a worker inside scenario() is never
\* taken out of it other than by scenario() returning.
C10_ShutdownDrains ==
    /\ [](shut # "running" => concurrency = 0)
    /\ [](shut = "returned" => \A w \in held : workers[w].pc = "done")
    /\ [][\A w \in DOMAIN workers :
            workers[w].pc = "run" => workers'[w].pc \in {"run", "check"}]_vars
    /\ (shut = "joining") ~> (shut = "returned")

\* C10 witness: wait_for_shutdown has returned after joining the two handles
\* of a pool that was grown to two workers and ran a transaction.
C10_Witness ==
    /\ shut = "returned"
    /\ Cardinality(held) = 2
    /\ \A w \in held : workers[w].pc = "done"
    /\ emitted > 0

\* C13: a get_samples returns None, touching neither history nor pool,
\* exactly when fewer than SKIP_SIZE + SAMPLE_WINDOW_SIZE = 13 samples have
\* been pushed since the window was last cleared: the 12 samples after a
\* clear give None, the 13th is analysed.
C13_TwelveNoneAfterClear ==
    [][(kind = "CS" /\ op'.name = "get_samples" /\ sets' = sets
          /\ sut_tps' = sut_tps)
       => /\ (op'.out = "None") <=> (pushes_since_clear' < 13)
          /\ (op'.out = "None") =>
                UNCHANGED <<measurements, concurrency, tps_limit, tps_limited>>
          /\ needs_clear => pushes_since_clear' = 1
      ]_vars

\* C13 witness: the 13th sample after a clear that followed a concurrency
\* change has been analysed.
C13_Witness ==
    /\ kind = "CS"
    /\ op.name = "get_samples"
    /\ op.out # "None"
    /\ pushes_since_clear = 13
    /\ Len(measurements) >= 2

\* C20: the window handed to analyze never holds a sample taken before the
\* most recent change of concurrency or goal TPS.
C20_AnalyzeSeesPostChangeOnly ==
    /\ seen_stale = 0
    /\ (kind = "CS" /\ stale > 0) => needs_clear

\* C20 witness: analyze has run on a window refilled after a change of the
\* goal, itself made after an earlier analysis.
C20_Witness ==
    /\ kind = "CS"
    /\ sets = 1
    /\ op.name = "get_samples"
    /\ op.out # "None"
    /\ measurements # <<>>
    /\ cc_goal # 4

\* C15: tps_limit is strictly positive, and an underpowered detection whose
\* measurement floors to a zero limit does not panic (stated for the
\* ConcurrencyAdjustedSampler).
C15_ZeroLimitNotPanicked ==
    kind = "CAS" => (tps_limit > 0 /\ panic # PanicOf("unwrap"))

\* A decision cycle that pushed the third measurement of the history, the
\* two slopes of which are both < 1.
ThirdMeasurementFlat ==
    /\ DecisionStep
    /\ Len(measurements) = 2
    /\ Len(measurements') = 3
    /\ SlopeBelowOne(measurements'[1], measurements'[2])
    /\ SlopeBelowOne(measurements'[2], measurements'[3])

\* C17 (as claimed): with exactly 3 measurements after the push and both
\* slopes < 1, the SUT is declared underpowered from measurements[0].
C17_ThreeMeasurementsDetect ==
    [][ThirdMeasurementFlat
       => /\ op'.out = "TpsLimited"
          /\ tps_limited'
          /\ tps_limit' = TpsAsU32(measurements'[1][2])]_vars

\* C17 (amended): with exactly 3 measurements after the push there are only
\* 2 slopes, and nothing is detected whatever the slopes are: the cycle
\* alters the concurrency and leaves tps_limit and tps_limited alone.
C17_ThreeMeasurementsNoDetection ==
    [][(DecisionStep /\ Len(measurements) = 2 /\ Len(measurements') = 3)
       => /\ op'.out = "AlterConcurrency"
          /\ UNCHANGED <<tps_limit, tps_limited, panic>>
          /\ concurrency' > concurrency]_vars

\* C17 witness: three measurements with both slopes < 1, and no detection.
C17_Witness ==
    /\ kind = "CAS"
    /\ Len(measurements) = 3
    /\ SlopeBelowOne(measurements[1], measurements[2])
    /\ SlopeBelowOne(measurements[2], measurements[3])
    /\ op.name = "sample"
    /\ op.out = "AlterConcurrency"
    /\ op.arg = measurements[3][2]
    /\ ~tps_limited

\* (t1 - t0) / (c1 - c0) < 1 in exact arithmetic, a pair of equal
\* concurrencies counting as slope 0.
ExactSlopeBelowOne(m0, m1) ==
    LET dc == m1[1] - m0[1]
        dt == m1[2] - m0[2]
    IN  IF dc = 0 THEN TRUE
        ELSE IF dc > 0 THEN dt < TpsDen * dc
        ELSE dt > TpsDen * dc

\* More than 2 slopes, the last two both < 1 in exact arithmetic.
ExactPlateau(meas) ==
    LET n == Len(meas)
    IN  /\ n >= 4
        /\ ExactSlopeBelowOne(meas[n - 2], meas[n - 1])
        /\ ExactSlopeBelowOne(meas[n - 1], meas[n])

\* A decision cycle that was not Stable: it pushed a measurement.
NonStableStep ==
    /\ DecisionStep
    /\ Len(measurements') = Len(measurements) + 1

\* What a TpsLimited transition installs from the third-most-recent
\* measurement of the history h.
LimitedFrom(h) ==
    /\ op'.out = "TpsLimited"
    /\ tps_limited'
    /\ tps_limit' = TpsAsU32(h[Len(h) - 2][2])
    /\ concurrency' = PullBack(h[Len(h) - 2][1])

ExactProposal(c, goal, n) ==
    LET q == (c * goal * TpsDen + n - 1) \div n
    IN  IF q > c + MAX_CHANGE THEN c + MAX_CHANGE ELSE q

\* A non-stable cycle without detection, on current >= 1 and measured > 0.
PlainAdjustStep ==
    /\ NonStableStep
    /\ op'.out = "AlterConcurrency"
    /\ op'.arg > 0
    /\ concurrency >= 1

\* Neither goal / measured nor its product with the concurrency is rounded.
UnroundedProposal(c, goal, n) ==
    LET x == F64Div(goal, n)
        y == F64Mul(c, x)
        d == 2 ^ (0 - x.e)
    IN  /\ x.e < 0
        /\ x.m * n = goal * TpsDen * d
        /\ y.e < 0
        /\ y.m * d = c * x.m * 2 ^ (0 - y.e)

\* C18 (as claimed): a non-stable cycle without detection applies exactly
\* min(ceil(current * goal / measured), current + 100), or
\* starting_concurrency if that is 0.
C18_AppliedIsExactProposal ==
    [][PlainAdjustStep
       => concurrency' =
            IF ExactProposal(concurrency, tps_limit, op'.arg) = 0
            THEN starting_concurrency
            ELSE ExactProposal(concurrency, tps_limit, op'.arg)]_vars

\* C18 (amended): the concurrency applied is above the current one by at
\* most MAX_CHANGE and within 1 of the exact
\* min(ceil(current * goal / measured), current + 100); it is that value
\* whenever neither f64 operation rounds.
C18_AppliedNearExactProposal ==
    [][PlainAdjustStep
       => LET E == ExactProposal(concurrency, tps_limit, op'.arg)
          IN  /\ concurrency' > concurrency
              /\ concurrency' <= concurrency + MAX_CHANGE
              /\ concurrency' <= E + 1
              /\ E <= concurrency' + 1
              /\ UnroundedProposal(concurrency, tps_limit, op'.arg)
                   => concurrency' = E]_vars

\* C18 witness: current 4, goal 2000, measured 1600.0 gave 5.
C18_Witness ==
    /\ kind = "CALC"
    /\ op = [name |-> "sample", arg |-> 16000, out |-> "AlterConcurrency"]
    /\ tps_limit = 2000
    /\ measurements = <<(<<4, 16000>>)>>
    /\ concurrency = 5

\* C14: the sampling period starts at 200 ms; no step lengthens it; and a
\* sample_tps call that returns leaves it halved (to the nanosecond) when
\* the sample it took has success + error > 2000, and as it was otherwise,
\* a sample of exactly 2000 included.
C14_IntervalHalvesAboveThreshold ==
    /\ (kind = "TICK" /\ nsamples = 0) => period = 200000000
    /\ [][/\ period' <= period
          /\ nsamples' = nsamples + 1 =>
                 LET total == swapped_success + error_count
                 IN period' = IF total > 2000 THEN period \div 2 ELSE period]_vars

\* After a sample of exactly 2000 events, returned with the period intact,
\* and one of 2001, the period is 100 ms.
C14_Witness ==
    /\ kind = "TICK"
    /\ nsamples = 2
    /\ reported = 4001
    /\ period = 100000000

\* C11: after every pass of the runner's loop that applied the controller's
\* message, the concurrency gauge equals the sampler's concurrency and the
\* goal-TPS gauge equals the sampler's tps_limit.
C11_GaugesMatchSampler ==
    (kind = "RUN" /\ run_pc = "loop" /\ panic = "none") =>
        /\ gauge_concurrency = concurrency
        /\ gauge_goal_tps = tps_limit

\* C12: over a run, the channel is sent no config before the controller
\* reports TpsLimited and exactly one from then on, with goal_tps = the
\* configured goal - max_tps and duration = the configured duration - the
\* time elapsed at the detection.
C12_ExactlyOneSurplusConfig ==
    (kind = "RUN" /\ panic = "none") =>
        /\ Len(offers) = (IF tps_limited THEN 1 ELSE 0)
        /\ \A i \in DOMAIN offers :
               /\ offers[i].goal_tps = config.goal_tps - offers[i].max_tps
               /\ offers[i].duration = config.duration - offers[i].at

\* C19: once a pool size <= its id has been stored, a worker passes its
\* loop check at most once more.
C19_AtMostOneFurtherIteration ==
    \A w \in DOMAIN workers : workers[w].extra <= 1

\* C23: the measurement history of a ConcurrencyAdjustedSampler is ordered by
\* non-decreasing concurrency, so no `c1 - c0` of the slope computation goes
\* below zero.
C23_HistoryNonDecreasing ==
    kind = "CAS" => ~SubOverflows(measurements)

\* C24: distribute_work is never handed an elapsed time above
\* config.duration: its duration subtraction never panics.
C24_ElapsedWithinDuration ==
    kind = "RUN" => panic # DurationPanic

\* C25: a cycle of a ConcurrencyAdjustedSampler that detects the plateau
\* installs a limit no higher than the limit in effect before it.
C25_DetectionNeverRaisesLimit ==
    [][(kind = "CAS" /\ op'.name = "sample" /\ op'.out = "TpsLimited")
          => tps_limit' <= tps_limit]_vars

\* C22: once wait_for_shutdown has returned, no task spawned during the run
\* is inside scenario(), the tasks whose handles a shrink dropped included.
C22_NoWorkerRunsAfterShutdown ==
    (kind = "POOL" /\ shut = "returned") =>
        \A w \in DOMAIN workers : workers[w].pc # "run"

\* The sampler and the controller as the runner's decisions leave them.
RunDecisions == <<tps_limit, limiter, tps_limited, measurements,
                  ctl_concurrency, offers>>

\* The order of run_tps's exit: the pass whose sample returns past the
\* duration leaves the loop without applying a decision; outside the loop
\* no decision is applied and the sampler's concurrency changes only by the
\* shutdown's store of 0; the gauges change only to 0, and only once
\* wait_for_shutdown has returned.
RunExitOrder ==
    [][/\ (run_pc = "loop" /\ elapsed' > config.duration) =>
              /\ run_pc' = "shutdown"
              /\ UNCHANGED <<RunDecisions, concurrency, gauge_concurrency,
                             gauge_goal_tps, shut>>
       /\ run_pc # "loop" =>
              /\ UNCHANGED RunDecisions
              /\ concurrency' # concurrency =>
                     (concurrency' = 0 /\ shut = "running" /\ shut' = "joining")
              /\ <<gauge_concurrency, gauge_goal_tps>>' #
                     <<gauge_concurrency, gauge_goal_tps>> =>
                     /\ shut = "returned"
                     /\ gauge_concurrency' = 0
                     /\ gauge_goal_tps' = 0
       /\ run_pc' = "done" =>
              (shut = "returned" /\ gauge_concurrency' = 0 /\ gauge_goal_tps' = 0)
      ]_vars

RunCompleted ==
    run_pc = "done" /\ gauge_concurrency = 0 /\ gauge_goal_tps = 0

====
